---- MODULE Spec2Model ----
(***************************************************************************)
(* The voice style store and interpolation engine of kokovoicelab:         *)
(*   kokovoicelab.py            interpolation / synthetic insertion        *)
(*   scripts/create_voice_db.py bulk catalog load                          *)
(*   scripts/synthesize.py      single-voice synthesis                     *)
(*   scripts/export_voice.py    export                                     *)
(* Style vectors are one-dimensional arrays of rationals: the arithmetic   *)
(* of numpy is modelled exactly (no floating-point rounding), its shape    *)
(* rules (broadcasting, ragged lists) as numpy applies them.               *)
(***************************************************************************)
EXTENDS Integers, Sequences, FiniteSets, TLC

VARIABLES
  catalog,       \* the voices table: a set of rows, at most one per name
  files,         \* the files the running workflow has written (audio, exports)
  connOpen,      \* the sqlite connection of the running workflow is open
  wf,            \* the running workflow: "none", "interp", "bulk", "synth", "export"
  pc,            \* its position
  args,          \* its parsed command line (the manifest, for the bulk load)
  source_style,  \* main's local of that name
  target_style,  \* main's local of that name
  err,           \* the exception that ended the workflow, or "none"
  trace,         \* the external effects of the running workflow, in order
  catalog0,      \* the catalog when the running workflow started
  style1,        \* interpolate_styles' parameter (pure-function specification)
  style2,        \* interpolate_styles' parameter
  factor,        \* interpolate_styles' parameter
  result         \* what the applied function returned, or Unset

vars == <<catalog, files, connOpen, wf, pc, args, source_style, target_style,
          err, trace, catalog0, style1, style2, factor, result>>

wfvars == <<catalog, files, connOpen, wf, pc, args, source_style, target_style,
            err, trace, catalog0>>

purevars == <<style1, style2, factor, result>>

-----------------------------------------------------------------------------
(* Bounds of the model. *)

\* the longest style vector the pure-function specification draws
MaxDim == 3

\* the most voices a bulk-load manifest holds
MaxManifest == 2

-----------------------------------------------------------------------------
(* Exact rational arithmetic: a number is <<n, d>> in lowest terms, d > 0. *)

Abs(x) == IF x < 0 THEN -x ELSE x

RECURSIVE GCD(_, _)
GCD(a, b) == IF b = 0 THEN a ELSE GCD(b, a % b)

Rat(n, d) ==
  LET s == IF d < 0 THEN -1 ELSE 1
      g == GCD(Abs(n), Abs(d))
  IN  IF n = 0 THEN <<0, 1>> ELSE <<(s * n) \div g, (s * d) \div g>>

RAdd(x, y) == Rat(x[1] * y[2] + y[1] * x[2], x[2] * y[2])
RSub(x, y) == Rat(x[1] * y[2] - y[1] * x[2], x[2] * y[2])
RMul(x, y) == Rat(x[1] * y[1], x[2] * y[2])
RDivInt(x, k) == Rat(x[1], x[2] * k)
RInt(k) == <<k, 1>>

-----------------------------------------------------------------------------
(* Python values.  An optional value (None, a missing key) is <<>> or <<v>>;*)
(* the outcome of an expression is the array it yields or the exception it *)
(* raises, with its message.                                               *)

None == <<>>
Some(v) == <<v>>
IsNone(o) == o = <<>>
Get(o) == o[1]

Ok(v) == [exc |-> "none", msg |-> "", val |-> v]
Raise(e, m) == [exc |-> e, msg |-> m, val |-> <<>>]
Unset == Raise("unset", "")
IsOk(r) == r.exc = "none"

ValueError == "ValueError"
BroadcastMsg == "operands could not be broadcast together"
InhomogeneousMsg == "the requested array has an inhomogeneous shape"

-----------------------------------------------------------------------------
(* numpy: element-wise operators on one-dimensional arrays.  An operand    *)
(* that raised propagates its exception.                                   *)

\* numpy's broadcasting rule for two one-dimensional shapes
Broadcastable(a, b) == Len(a) = Len(b) \/ Len(a) = 1 \/ Len(b) = 1

BLen(a, b) == IF Len(a) >= Len(b) THEN Len(a) ELSE Len(b)

At(a, i) == IF Len(a) = 1 THEN a[1] ELSE a[i]

\* a - b: a ValueError ("operands could not be broadcast together") when
\* the shapes are incompatible, the broadcast result otherwise
np_subtract(a, b) ==
  IF ~IsOk(a) THEN a
  ELSE IF ~IsOk(b) THEN b
  ELSE IF ~Broadcastable(a.val, b.val) THEN Raise(ValueError, BroadcastMsg)
  ELSE Ok([i \in 1..BLen(a.val, b.val) |-> RSub(At(a.val, i), At(b.val, i))])

\* a + b, as a - b
np_add(a, b) ==
  IF ~IsOk(a) THEN a
  ELSE IF ~IsOk(b) THEN b
  ELSE IF ~Broadcastable(a.val, b.val) THEN Raise(ValueError, BroadcastMsg)
  ELSE Ok([i \in 1..BLen(a.val, b.val) |-> RAdd(At(a.val, i), At(b.val, i))])

\* a * f for a scalar f
np_scale(a, f) ==
  IF ~IsOk(a) THEN a ELSE Ok([i \in 1..Len(a.val) |-> RMul(a.val[i], f)])

\* a / k for an integer k
np_divide(a, k) ==
  IF ~IsOk(a) THEN a ELSE Ok([i \in 1..Len(a.val) |-> RDivInt(a.val[i], k)])

-----------------------------------------------------------------------------
(* kokovoicelab.py: interpolate_styles *)

\* the mutant that leaves out the division of the scaled difference by two
interpolate_styles_undivided(s1, s2, f) ==
  LET diff_vector == np_subtract(Ok(s2), Ok(s1))
      midpoint == np_divide(np_add(Ok(s1), Ok(s2)), 2)
  IN  np_add(midpoint, np_scale(diff_vector, f))

\* the mutant that clamps the factor to [-1, 1]
interpolate_styles_clamped(s1, s2, f) ==
  LET diff_vector == np_subtract(Ok(s2), Ok(s1))
      midpoint == np_divide(np_add(Ok(s1), Ok(s2)), 2)
      c == IF f[1] > f[2] THEN RInt(1) ELSE IF f[1] < -f[2] THEN RInt(-1) ELSE f
  IN  np_add(midpoint, np_divide(np_scale(diff_vector, c), 2))

interpolate_styles(s1, s2, f) ==
  LET diff_vector == np_subtract(Ok(s2), Ok(s1))
      midpoint == np_divide(np_add(Ok(s1), Ok(s2)), 2)
  IN  np_add(midpoint, np_divide(np_scale(diff_vector, f), 2))

\* --ranges' default, "-2,-1,-0.5,0,0.5,1,2"
DefaultRanges ==
  << <<-2, 1>>, <<-1, 1>>, <<-1, 2>>, <<0, 1>>, <<1, 2>>, <<1, 1>>, <<2, 1>> >>

Factors == {DefaultRanges[i] : i \in 1..Len(DefaultRanges)}

-----------------------------------------------------------------------------
(* The store: the voices table and the array codec. *)

\* np.save into a blob: the blob carries the shape and the elements
adapt_array(arr) == [shape |-> Len(arr), data |-> arr]

\* np.load of a blob
convert_array(blob) == SubSeq(blob.data, 1, blob.shape)

\* a row of the voices table (training_duration, notes and created_at, which
\* no operation reads, are left out)
Row(name, gender, language, quality, style_vector, is_synthetic) ==
  [name |-> name, gender |-> gender, language |-> language,
   quality |-> quality, style_vector |-> adapt_array(style_vector),
   is_synthetic |-> is_synthetic]

\* name TEXT PRIMARY KEY
HasName(cat, n) == \E r \in cat : r.name = n

\* INSERT OR REPLACE: the row of that name, if any, is replaced
InsertOrReplace(cat, row) == {r \in cat : r.name # row.name} \cup {row}

\* the selection predicates the workflows are run with
QAll == "SELECT * FROM voices"
QFemale == "SELECT * FROM voices WHERE gender = 'F'"
QMale == "SELECT * FROM voices WHERE gender = 'M'"
QNoTable == "SELECT * FROM voice"

Queries == {QAll, QFemale, QMale, QNoTable}

Matches(r, q) ==
  CASE q = QAll -> TRUE
    [] q = QFemale -> r.gender = "F"
    [] q = QMale -> r.gender = "M"
    [] OTHER -> FALSE

\* cursor.execute(query); cursor.fetchall()
Select(cat, q) == {r \in cat : Matches(r, q)}

-----------------------------------------------------------------------------
(* kokovoicelab.py: get_voice_group_vector *)

StyleOf(r) == convert_array(r.style_vector)

RECURSIVE SumStyles(_)
SumStyles(voices) ==
  LET r == CHOOSE x \in voices : TRUE
      rest == voices \ {r}
  IN  IF rest = {} THEN StyleOf(r)
      ELSE LET t == SumStyles(rest)
           IN  [i \in 1..Len(t) |-> RAdd(StyleOf(r)[i], t[i])]

\* np.mean(style_vectors, axis=0) of a non-empty list of arrays: numpy
\* refuses to build an array from arrays of different shapes
np_mean(voices) ==
  IF \E r1, r2 \in voices : Len(StyleOf(r1)) # Len(StyleOf(r2))
  THEN Raise(ValueError, InhomogeneousMsg)
  ELSE np_divide(Ok(SumStyles(voices)), Cardinality(voices))

NoVoicesMsg(query) == "No voices found for query: " \o query

\* the mutant that averages nothing for an empty match
get_voice_group_vector_default(cat, query) ==
  IF query = QNoTable THEN Raise("OperationalError", "no such table: voice")
  ELSE IF Select(cat, query) = {} THEN Ok(<<>>)
  ELSE np_mean(Select(cat, query))

\* the mutant that returns the first matched voice's vector
get_voice_group_vector_first(cat, query) ==
  IF query = QNoTable THEN Raise("OperationalError", "no such table: voice")
  ELSE IF Select(cat, query) = {} THEN Raise(ValueError, NoVoicesMsg(query))
  ELSE Ok(StyleOf(CHOOSE r \in Select(cat, query) : TRUE))

get_voice_group_vector(cat, query) ==
  IF query = QNoTable THEN Raise("OperationalError", "no such table: voice")
  ELSE IF Select(cat, query) = {} THEN Raise(ValueError, NoVoicesMsg(query))
  ELSE np_mean(Select(cat, query))

-----------------------------------------------------------------------------
(* The workflows' command lines. *)

NoArgs ==
  [source_query |-> "", target_query |-> "", ranges |-> <<>>,
   insert |-> None, name |-> None, gender |-> None, quality |-> None,
   lang |-> "en-us", manifest |-> <<>>, voice_name |-> None,
   export_all |-> FALSE]

NoErr == <<"none", "">>

InitWorkflow ==
  /\ catalog = {}
  /\ files = {}
  /\ connOpen = FALSE
  /\ wf = "none"
  /\ pc = "idle"
  /\ args = NoArgs
  /\ source_style = Unset
  /\ target_style = Unset
  /\ err = NoErr
  /\ trace = <<>>
  /\ catalog0 = {}

\* a workflow is a process of its own: it starts when none is running
Start(w, a, first) ==
  /\ pc \in {"idle", "done"}
  /\ wf' = w
  /\ pc' = first
  /\ args' = a
  /\ connOpen' = FALSE
  /\ source_style' = Unset
  /\ target_style' = Unset
  /\ err' = NoErr
  /\ trace' = <<>>
  /\ catalog0' = catalog
  /\ files' = {}
  /\ UNCHANGED catalog
  /\ UNCHANGED purevars

\* a step of the running workflow goes to position q; e is what it did
Goto(q, e) ==
  /\ pc' = q
  /\ trace' = Append(trace, e)
  /\ UNCHANGED <<wf, args, catalog0>>
  /\ UNCHANGED purevars

At_(w, p) == wf = w /\ pc = p

-----------------------------------------------------------------------------
(* kokovoicelab.py: main *)

SyntheticNames == {"syn", "af"}

InsertFactors == {<<1, 2>>, <<2, 1>>}

SweepRanges == {<< <<-1, 1>>, <<2, 1>> >>}

\* --name, --gender and --quality of an insertion: all given, one missing,
\* or one outside its choices
InsertProfiles ==
  {<<Some(n), Some("F"), Some(80)>> : n \in SyntheticNames}
  \cup {<<None, Some("F"), Some(80)>>,
        <<Some("syn"), None, Some(80)>>,
        <<Some("syn"), Some("F"), None>>,
        <<Some("syn"), Some("Q"), Some(80)>>,
        <<Some("syn"), Some("F"), Some(101)>>}

\* the command lines drawn: a sweep, or an insertion
InterpArgs ==
  {[NoArgs EXCEPT !.source_query = sq, !.target_query = tq, !.ranges = r] :
     sq \in Queries, tq \in Queries, r \in SweepRanges}
  \cup
  {[NoArgs EXCEPT !.source_query = sq, !.target_query = tq,
                  !.ranges = DefaultRanges, !.insert = Some(f),
                  !.name = p[1], !.gender = p[2], !.quality = p[3]] :
     sq \in Queries \ {QNoTable}, tq \in Queries \ {QNoTable},
     f \in InsertFactors, p \in InsertProfiles}

\* parser.add_argument('--gender', choices=['M', 'F', 'X']) and
\* parser.add_argument('--quality', type=int, choices=range(0, 101))
ArgparseRejects(a) ==
  \/ ~IsNone(a.gender) /\ Get(a.gender) \notin {"M", "F", "X"}
  \/ ~IsNone(a.quality) /\ Get(a.quality) \notin 0..100

\* the mutant that validates only --name
InsertArgsMissing_NameOnly(a) ==
  ~IsNone(a.insert) /\ IsNone(a.name)

\* if args.insert is not None: --name, --gender and --quality are required
InsertArgsMissing(a) ==
  ~IsNone(a.insert) /\ (IsNone(a.name) \/ IsNone(a.gender) \/ IsNone(a.quality))

StartInterp == \E a \in InterpArgs : Start("interp", a, "parse")

\* parse_args and the validation of the insert-related arguments: both end
\* in parser.error, which exits
InterpParse ==
  /\ At_("interp", "parse")
  /\ IF ArgparseRejects(args)
     THEN /\ err' = <<"SystemExit", "argument: invalid choice">>
          /\ pc' = "done"
     ELSE IF InsertArgsMissing(args)
     THEN /\ err' = <<"SystemExit", "required when using --insert">>
          /\ pc' = "done"
     ELSE /\ err' = err
          /\ pc' = "connect"
  /\ trace' = Append(trace, "validate")
  /\ UNCHANGED <<catalog, files, connOpen, wf, args, source_style,
                 target_style, catalog0>>
  /\ UNCHANGED purevars

\* output_dir.mkdir, the codec's registration, sqlite3.connect
InterpConnect ==
  /\ At_("interp", "connect")
  /\ connOpen' = TRUE
  /\ Goto("source", "connect")
  /\ UNCHANGED <<catalog, files, source_style, target_style, err>>

InterpSource ==
  /\ At_("interp", "source")
  /\ LET r == get_voice_group_vector(catalog, args.source_query)
     IN  IF IsOk(r)
         THEN /\ source_style' = r
              /\ err' = err
              /\ Goto("target", "resolve_source")
         ELSE /\ source_style' = source_style
              /\ err' = <<r.exc, r.msg>>
              /\ Goto("finally", "resolve_source")
  /\ UNCHANGED <<catalog, files, connOpen, target_style>>

InterpTarget ==
  /\ At_("interp", "target")
  /\ LET r == get_voice_group_vector(catalog, args.target_query)
     IN  IF IsOk(r)
         THEN /\ target_style' = r
              /\ err' = err
              /\ Goto("kokoro", "resolve_target")
         ELSE /\ target_style' = target_style
              /\ err' = <<r.exc, r.msg>>
              /\ Goto("finally", "resolve_target")
  /\ UNCHANGED <<catalog, files, connOpen, source_style>>

\* Kokoro("kokoro-v1.0.onnx", "voices-v1.0.bin"): the gateway may fail
InterpKokoro ==
  /\ At_("interp", "kokoro")
  /\ \E ok \in BOOLEAN :
       IF ok
       THEN /\ err' = err
            /\ Goto(IF IsNone(args.insert) THEN "sweep" ELSE "insert",
                    "kokoro_init")
       ELSE /\ err' = <<"GatewayError", "Kokoro">>
            /\ Goto("finally", "kokoro_init")
  /\ UNCHANGED <<catalog, files, connOpen, source_style, target_style>>

\* the mutant that upserts the synthetic voice
InsertVoice_Replace(cat, row) ==
  Ok(InsertOrReplace(cat, row))

\* INSERT INTO voices: a plain insert, the name is the primary key
InsertVoice(cat, row) ==
  IF HasName(cat, row.name)
  THEN Raise("IntegrityError", "UNIQUE constraint failed: voices.name")
  ELSE Ok(cat \cup {row})

\* the mutant that leaves the insertion uncommitted until the audio is written
InterpInsert_Uncommitted ==
  /\ At_("interp", "insert")
  /\ LET s == interpolate_styles(source_style.val, target_style.val,
                                 Get(args.insert))
     IN  IF ~IsOk(s)
         THEN /\ err' = <<s.exc, s.msg>>
              /\ Goto("finally", "interpolate")
         ELSE IF HasName(catalog, Get(args.name))
         THEN /\ err' = <<"IntegrityError", "UNIQUE constraint failed: voices.name">>
              /\ Goto("finally", "insert")
         ELSE /\ err' = err
              /\ Goto("create", "insert")
  /\ UNCHANGED <<catalog, files, connOpen, source_style, target_style>>

\* the insertion: interpolate, INSERT, commit
InterpInsert ==
  /\ At_("interp", "insert")
  /\ LET s == interpolate_styles(source_style.val, target_style.val,
                                 Get(args.insert))
         row == Row(Get(args.name), Get(args.gender), args.lang,
                    Get(args.quality), s.val, TRUE)
         c == InsertVoice(catalog, row)
     IN  IF ~IsOk(s)
         THEN /\ err' = <<s.exc, s.msg>>
              /\ catalog' = catalog
              /\ Goto("finally", "interpolate")
         ELSE IF ~IsOk(c)
         THEN /\ err' = <<c.exc, c.msg>>
              /\ catalog' = catalog
              /\ Goto("finally", "insert")
         ELSE /\ err' = err
              /\ catalog' = c.val
              /\ Goto("create", "insert")
  /\ UNCHANGED <<files, connOpen, source_style, target_style>>

\* kokoro.create for the inserted voice: the gateway may fail
InterpCreate ==
  /\ At_("interp", "create")
  /\ \E ok \in BOOLEAN :
       IF ok
       THEN /\ err' = err
            /\ Goto("write", "create")
       ELSE /\ err' = <<"GatewayError", "create">>
            /\ Goto("finally", "create")
  /\ UNCHANGED <<catalog, files, connOpen, source_style, target_style>>

\* sf.write of the sample: the write may fail
InterpWrite ==
  /\ At_("interp", "write")
  /\ \E ok \in BOOLEAN :
       IF ok
       THEN /\ err' = err
            /\ files' = files \cup {Get(args.name) \o ".wav"}
            /\ Goto("finally", "write")
       ELSE /\ err' = <<"OSError", "write">>
            /\ files' = files
            /\ Goto("finally", "write")
  /\ UNCHANGED <<catalog, connOpen, source_style, target_style>>

\* f"interpolation_{factor:.2f}.wav"
SweepFile(f) ==
  CASE f = <<-2, 1>> -> "interpolation_-2.00.wav"
    [] f = <<-1, 1>> -> "interpolation_-1.00.wav"
    [] f = <<-1, 2>> -> "interpolation_-0.50.wav"
    [] f = <<0, 1>> -> "interpolation_0.00.wav"
    [] f = <<1, 2>> -> "interpolation_0.50.wav"
    [] f = <<1, 1>> -> "interpolation_1.00.wav"
    [] f = <<2, 1>> -> "interpolation_2.00.wav"

\* the loop over args.ranges: the first k factors are interpolated,
\* generated and written; the loop ends there when the next one fails
InterpSweep ==
  /\ At_("interp", "sweep")
  /\ LET n == Len(args.ranges)
         s == interpolate_styles(source_style.val, target_style.val,
                                 args.ranges[1])
     IN  IF ~IsOk(s)
         THEN /\ err' = <<s.exc, s.msg>>
              /\ files' = files
              /\ Goto("finally", "interpolate")
         ELSE \E k \in 0..n :
                /\ files' = files \cup {SweepFile(args.ranges[i]) : i \in 1..k}
                /\ IF k = n
                   THEN /\ err' = err
                        /\ Goto("finally", "sweep")
                   ELSE \E e \in {<<"GatewayError", "create">>,
                                  <<"OSError", "write">>} :
                          /\ err' = e
                          /\ Goto("finally", "sweep_failed")
  /\ UNCHANGED <<catalog, connOpen, source_style, target_style>>

\* finally: conn.close()
InterpFinally ==
  /\ At_("interp", "finally")
  /\ connOpen' = FALSE
  /\ Goto("done", "close")
  /\ UNCHANGED <<catalog, files, source_style, target_style, err>>

-----------------------------------------------------------------------------
(* scripts/create_voice_db.py *)

\* voices-v1.0.bin: the styles the gateway knows, by name
KokoroNames == {"af", "am", "bm"}

KokoroStyle(name) ==
  CASE name = "af" -> <<RInt(1), RInt(0)>>
    [] name = "am" -> <<RInt(0), RInt(1)>>
    [] name = "bm" -> <<RInt(2)>>

\* kokoro.get_voice_style(name)
get_voice_style(name) ==
  IF name \in KokoroNames THEN Ok(KokoroStyle(name))
  ELSE Raise("KeyError", name)

Voice(name, gender, quality) ==
  [name |-> name, gender |-> gender, language |-> Some("en-us"),
   quality |-> quality]

\* the entries a manifest (voice-data.json) is made of: a key that is
\* missing is None
ManifestVoices ==
  { Voice(Some("af"), Some("F"), Some(90)),
    Voice(Some("am"), Some("M"), Some(50)),
    Voice(Some("bm"), Some("M"), Some(101)),
    Voice(None, Some("F"), Some(90)),
    Voice(Some("zz"), Some("F"), Some(90)) }

Manifests == UNION {[1..n -> ManifestVoices] : n \in 1..MaxManifest}

\* the try block of the loop raises: a key of the voice is missing, or the
\* gateway does not know the voice
VoiceRaises(v) ==
  \/ IsNone(v.name)
  \/ ~IsOk(get_voice_style(Get(v.name)))
  \/ IsNone(v.gender)
  \/ IsNone(v.language)
  \/ IsNone(v.quality)

\* the row INSERT OR REPLACE stores for a voice of the manifest: the values
\* as the manifest gives them, is_synthetic defaulting to False
VoiceRow(v) ==
  Row(Get(v.name), Get(v.gender), Get(v.language), Get(v.quality),
      get_voice_style(Get(v.name)).val, FALSE)

\* the loop of populate_database from voice i on: the table it leaves and
\* the exception that left the loop, if any.  The except block prints
\* voice['name'], which raises again when that key is missing.
RECURSIVE PopulateFrom(_, _, _)
PopulateFrom(cat, voices, i) ==
  IF i > Len(voices) THEN [cat |-> cat, exc |-> NoErr]
  ELSE IF IsNone(voices[i].name) THEN [cat |-> cat, exc |-> <<"KeyError", "name">>]
  ELSE IF VoiceRaises(voices[i]) THEN PopulateFrom(cat, voices, i + 1)
  ELSE PopulateFrom(InsertOrReplace(cat, VoiceRow(voices[i])), voices, i + 1)

\* populate_database: the loop, then one commit; nothing is committed when
\* the loop is left by an exception
populate_database(cat, voices) ==
  LET r == PopulateFrom(cat, voices, 1)
  IN  IF r.exc = NoErr THEN r ELSE [cat |-> cat, exc |-> r.exc]

StartBulk ==
  \E m \in Manifests :
    Start("bulk", [NoArgs EXCEPT !.manifest = m], "kokoro")

\* Kokoro(...) and load_voice_data(): no connection is open yet
BulkKokoro ==
  /\ At_("bulk", "kokoro")
  /\ \E ok \in BOOLEAN :
       IF ok
       THEN /\ err' = err
            /\ Goto("createdb", "kokoro_init")
       ELSE /\ err' = <<"GatewayError", "Kokoro">>
            /\ Goto("done", "kokoro_init")
  /\ UNCHANGED <<catalog, files, connOpen, source_style, target_style>>

\* create_voice_database: connect, CREATE TABLE IF NOT EXISTS, commit.  The
\* statement may fail (the file is not a database, the disk is full); the
\* exception leaves main, which has no handler
BulkCreateDatabase ==
  /\ At_("bulk", "createdb")
  /\ connOpen' = TRUE
  /\ \E ok \in BOOLEAN :
       IF ok
       THEN /\ err' = err
            /\ Goto("populate", "connect")
       ELSE /\ err' = <<"DatabaseError", "CREATE TABLE">>
            /\ Goto("done", "connect")
  /\ UNCHANGED <<catalog, files, source_style, target_style>>

BulkPopulate ==
  /\ At_("bulk", "populate")
  /\ LET r == populate_database(catalog, args.manifest)
     IN  /\ catalog' = r.cat
         /\ err' = r.exc
         /\ IF r.exc = NoErr
            THEN Goto("verify", "populate_commit")
            ELSE Goto("done", "populate")
  /\ UNCHANGED <<files, connOpen, source_style, target_style>>

\* the two verifying queries, then conn.close()
BulkVerifyClose ==
  /\ At_("bulk", "verify")
  /\ connOpen' = FALSE
  /\ Goto("done", "close")
  /\ UNCHANGED <<catalog, files, source_style, target_style, err>>

-----------------------------------------------------------------------------
(* scripts/synthesize.py and scripts/export_voice.py *)

\* get_voice_vector: SELECT * FROM voices WHERE name = ?
get_voice_vector(cat, voice_name) ==
  IF ~HasName(cat, voice_name)
  THEN Raise(ValueError, "No voice found with name: " \o voice_name)
  ELSE Ok(StyleOf(CHOOSE r \in cat : r.name = voice_name))

VoiceNames == {"af", "syn", "zz"}

StartSynth ==
  \E n \in VoiceNames :
    Start("synth", [NoArgs EXCEPT !.voice_name = Some(n)], "connect")

SynthConnect ==
  /\ At_("synth", "connect")
  /\ connOpen' = TRUE
  /\ Goto("run", "connect")
  /\ UNCHANGED <<catalog, files, source_style, target_style, err>>

\* the try block: get_voice_vector, Kokoro(...), kokoro.create, sf.write;
\* the lookup fails when the voice is absent, the gateway and the write may
\* fail
SynthRun ==
  /\ At_("synth", "run")
  /\ LET v == get_voice_vector(catalog, Get(args.voice_name))
     IN  IF ~IsOk(v)
         THEN /\ err' = <<v.exc, v.msg>>
              /\ files' = files
              /\ Goto("finally", "lookup")
         ELSE \E e \in {NoErr, <<"GatewayError", "Kokoro">>,
                        <<"GatewayError", "create">>, <<"OSError", "write">>} :
                /\ err' = e
                /\ files' = IF e = NoErr
                            THEN files \cup {Get(args.voice_name) \o "_Hello.wav"}
                            ELSE files
                /\ Goto("finally", IF e = NoErr THEN "write" ELSE e[2])
  /\ UNCHANGED <<catalog, connOpen, source_style, target_style>>

SynthFinally ==
  /\ At_("synth", "finally")
  /\ connOpen' = FALSE
  /\ Goto("done", "close")
  /\ UNCHANGED <<catalog, files, source_style, target_style, err>>

ExportArgs ==
  {[NoArgs EXCEPT !.export_all = TRUE], NoArgs}
  \cup {[NoArgs EXCEPT !.voice_name = Some(n)] : n \in VoiceNames}

StartExport == \E a \in ExportArgs : Start("export", a, "connect")

ExportConnect ==
  /\ At_("export", "connect")
  /\ connOpen' = TRUE
  /\ Goto("run", "connect")
  /\ UNCHANGED <<catalog, files, source_style, target_style, err>>

\* the try block: export_all_voices, or get_voice_vector and torch.save, or
\* parser.error; a write may fail
ExportRun ==
  /\ At_("export", "run")
  /\ LET lookup == IF IsNone(args.voice_name) THEN Unset
                   ELSE get_voice_vector(catalog, Get(args.voice_name))
         target == IF args.export_all THEN "voices.bin"
                   ELSE IF IsNone(args.voice_name) THEN ""
                   ELSE Get(args.voice_name) \o ".pt"
         fails == IF args.export_all
                  THEN IF catalog = {}
                       THEN <<ValueError, "No voices found in database">>
                       ELSE NoErr
                  ELSE IF IsNone(args.voice_name)
                  THEN <<"SystemExit", "Either --voice-name or --export-all">>
                  ELSE IF ~IsOk(lookup) THEN <<lookup.exc, lookup.msg>>
                  ELSE NoErr
     IN  IF fails # NoErr
         THEN /\ err' = fails
              /\ files' = files
              /\ Goto("finally", "export_failed")
         ELSE \E ok \in BOOLEAN :
                /\ err' = IF ok THEN NoErr ELSE <<"OSError", "write">>
                /\ files' = IF ok THEN files \cup {target} ELSE files
                /\ Goto("finally", IF ok THEN "write" ELSE "write_failed")
  /\ UNCHANGED <<catalog, connOpen, source_style, target_style>>

ExportFinally ==
  /\ At_("export", "finally")
  /\ connOpen' = FALSE
  /\ Goto("done", "close")
  /\ UNCHANGED <<catalog, files, source_style, target_style, err>>

-----------------------------------------------------------------------------
(* The workflows, one invocation after another. *)

Init ==
  /\ InitWorkflow
  /\ style1 = <<>>
  /\ style2 = <<>>
  /\ factor = RInt(0)
  /\ result = Unset

Next ==
  \/ StartInterp
  \/ InterpParse
  \/ InterpConnect
  \/ InterpSource
  \/ InterpTarget
  \/ InterpKokoro
  \/ InterpInsert
  \/ InterpCreate
  \/ InterpWrite
  \/ InterpSweep
  \/ InterpFinally
  \/ StartBulk
  \/ BulkKokoro
  \/ BulkCreateDatabase
  \/ BulkPopulate
  \/ BulkVerifyClose
  \/ StartSynth
  \/ SynthConnect
  \/ SynthRun
  \/ SynthFinally
  \/ StartExport
  \/ ExportConnect
  \/ ExportRun
  \/ ExportFinally

Spec == Init /\ [][Next]_vars

-----------------------------------------------------------------------------
(* The specification of the pure function: interpolate_styles applied to   *)
(* every pair of vectors of up to MaxDim elements and every factor.        *)

Elems == {RInt(0), RInt(1), <<-1, 2>>}

Vectors == UNION {[1..n -> Elems] : n \in 1..MaxDim}

InitInterp ==
  /\ InitWorkflow
  /\ style1 \in Vectors
  /\ style2 \in Vectors
  /\ factor \in Factors
  /\ result = Unset

ApplyInterpolate ==
  /\ result = Unset
  /\ result' = interpolate_styles(style1, style2, factor)
  /\ UNCHANGED <<style1, style2, factor>>
  /\ UNCHANGED wfvars

NextInterp == ApplyInterpolate

SpecInterp == InitInterp /\ [][NextInterp]_vars

-----------------------------------------------------------------------------
(* Claims about interpolate_styles, checked under SpecInterp. *)

SameShape == Len(style1) = Len(style2)

Half(x) == RDivInt(x, 2)

\* source * (1 - factor)/2 + target * (1 + factor)/2, element i
Affine(i) ==
  RAdd(RMul(style1[i], Half(RSub(RInt(1), factor))),
       RMul(style2[i], Half(RAdd(RInt(1), factor))))

\* C4: for source and target of equal dimension, interpolate(source, target,
\* factor) is the affine combination source*(1-factor)/2 + target*(1+factor)/2
\* element-wise; factor 0 gives the midpoint (source+target)/2, factor 1 the
\* target and factor -1 the source.
C4_InterpolateIsAffine ==
  (result # Unset /\ SameShape) =>
    /\ IsOk(result)
    /\ Len(result.val) = Len(style1)
    /\ \A i \in 1..Len(style1) : result.val[i] = Affine(i)
    /\ factor = RInt(0) =>
         \A i \in 1..Len(style1) :
           result.val[i] = Half(RAdd(style1[i], style2[i]))
    /\ factor = RInt(1) => result.val = style2
    /\ factor = RInt(-1) => result.val = style1

C4_Witness ==
  /\ result # Unset
  /\ SameShape
  /\ style1 # style2
  /\ factor = RInt(-1)
  /\ result = Ok(style1)

\* C5: the factor is not clamped: with factor 2 the result is
\* target + (target - source), one full span past the target, and
\* interpolate([0,0], [1,0], 2) = [2,0].
C5_FactorTwoOvershoots ==
  (result # Unset /\ SameShape /\ factor = RInt(2)) =>
    /\ IsOk(result)
    /\ Len(result.val) = Len(style1)
    /\ \A i \in 1..Len(style1) :
         result.val[i] = RAdd(style2[i], RSub(style2[i], style1[i]))
    /\ (style1 = <<RInt(0), RInt(0)>> /\ style2 = <<RInt(1), RInt(0)>>) =>
         result.val = <<RInt(2), RInt(0)>>

\* C5, as the code computes it: with factor 2 the result is
\* target + (target - source)/2, half a span past the target, and
\* interpolate([0,0], [1,0], 2) = [3/2, 0]; the factor is not clamped.
C5_FactorTwoOvershootsHalfSpan ==
  (result # Unset /\ SameShape /\ factor = RInt(2)) =>
    /\ IsOk(result)
    /\ Len(result.val) = Len(style1)
    /\ \A i \in 1..Len(style1) :
         result.val[i] = RAdd(style2[i], Half(RSub(style2[i], style1[i])))
    /\ (style1 = <<RInt(0), RInt(0)>> /\ style2 = <<RInt(1), RInt(0)>>) =>
         result.val = <<<<3, 2>>, RInt(0)>>

C5_Witness ==
  /\ style1 = <<RInt(0), RInt(0)>>
  /\ style2 = <<RInt(1), RInt(0)>>
  /\ factor = RInt(2)
  /\ result = Ok(<<<<3, 2>>, RInt(0)>>)

-----------------------------------------------------------------------------
(* Claims about the workflows, checked under Spec. *)

Did(e) == \E i \in 1..Len(trace) : trace[i] = e

IsPrefix(t, u) == Len(t) <= Len(u) /\ t = SubSeq(u, 1, Len(t))

Inserting == wf = "interp" /\ ~IsNone(args.insert)

\* C1: a synthetic insertion whose name is already in the catalog fails with
\* the duplicate-key error, leaves the catalog as it was, and is followed by
\* no audio generation and no audio file.
C1_DuplicateInsertFails ==
  (Inserting /\ Did("insert") /\ HasName(catalog0, Get(args.name))) =>
    /\ err[1] = "IntegrityError"
    /\ catalog = catalog0
    /\ Cardinality(catalog) = Cardinality(catalog0)
    /\ ~Did("create")
    /\ ~Did("write")
    /\ files = {}

C1_Witness ==
  /\ Inserting
  /\ pc = "done"
  /\ Did("insert")
  /\ HasName(catalog0, Get(args.name))
  /\ \E r \in catalog : r.name = Get(args.name) /\ ~r.is_synthetic

\* C2: an insertion that lacks name, gender or quality fails validation
\* before the connection is opened, a group is queried, a row is inserted or
\* the gateway is called: the catalog and the files are as they were.
C2_MissingArgumentFailsFirst ==
  (/\ Inserting
   /\ pc # "parse"
   /\ IsNone(args.name) \/ IsNone(args.gender) \/ IsNone(args.quality)) =>
    /\ pc = "done"
    /\ err[1] = "SystemExit"
    /\ trace = <<"validate">>
    /\ ~connOpen
    /\ catalog = catalog0
    /\ files = {}
    /\ source_style = Unset
    /\ target_style = Unset

C2_Witness ==
  /\ Inserting
  /\ pc = "done"
  /\ IsNone(args.quality)
  /\ ~IsNone(args.name)
  /\ ~IsNone(args.gender)
  /\ catalog # {}

\* the query runs and matches no voice of the catalog
MatchesNone(q) == q # QNoTable /\ Select(catalog0, q) = {}

AfterClose(t) == t \o (IF pc = "done" THEN <<"close">> ELSE <<>>)

\* C3: when the source or the target predicate matches no voice, group
\* resolution fails with the empty-group error naming that predicate and
\* yields no vector; the workflow stops there: no interpolation, insertion,
\* gateway call or audio file.
C3_EmptyGroupAborts ==
  /\ (wf = "interp" /\ Did("resolve_source") /\ MatchesNone(args.source_query)) =>
       /\ err = <<ValueError, NoVoicesMsg(args.source_query)>>
       /\ source_style = Unset
       /\ target_style = Unset
       /\ pc \in {"finally", "done"}
       /\ trace = AfterClose(<<"validate", "connect", "resolve_source">>)
       /\ catalog = catalog0
       /\ files = {}
  /\ (wf = "interp" /\ Did("resolve_target") /\ MatchesNone(args.target_query)) =>
       /\ err = <<ValueError, NoVoicesMsg(args.target_query)>>
       /\ target_style = Unset
       /\ pc \in {"finally", "done"}
       /\ trace = AfterClose(<<"validate", "connect", "resolve_source",
                               "resolve_target">>)
       /\ catalog = catalog0
       /\ files = {}

C3_Witness ==
  /\ wf = "interp"
  /\ pc = "done"
  /\ IsOk(source_style)
  /\ MatchesNone(args.target_query)
  /\ catalog # {}

\* C6: vectors of different shapes are always rejected: a matched group
\* whose vectors differ in shape makes group resolution fail, and an
\* interpolation of a source and a target of different shapes fails instead
\* of yielding a vector.
C6_MismatchRejected ==
  /\ (wf = "interp" /\ IsOk(source_style)) =>
       \A r1, r2 \in Select(catalog0, args.source_query) :
         Len(StyleOf(r1)) = Len(StyleOf(r2))
  /\ (wf = "interp" /\ IsOk(target_style)) =>
       \A r1, r2 \in Select(catalog0, args.target_query) :
         Len(StyleOf(r1)) = Len(StyleOf(r2))
  /\ (/\ wf = "interp"
      /\ IsOk(source_style)
      /\ IsOk(target_style)
      /\ Len(source_style.val) # Len(target_style.val)
      /\ \E e \in {"interpolate", "insert", "sweep", "sweep_failed"} : Did(e)) =>
       /\ Did("interpolate")
       /\ err = <<ValueError, BroadcastMsg>>
       /\ catalog = catalog0
       /\ files = {}

\* C7: in every workflow the connection is closed when the workflow ends,
\* normally or by an error raised after the connection was opened.
C7_ConnectionClosedOnExit ==
  pc = "done" => ~connOpen

\* C8: every row of the catalog has a quality in 0..100 and a gender among
\* M, F, X, whichever path created it.
C8_RowsValid ==
  \A r \in catalog : r.quality \in 0..100 /\ r.gender \in {"M", "F", "X"}

RECURSIVE SumAt(_, _)
SumAt(voices, i) ==
  IF voices = {} THEN RInt(0)
  ELSE LET r == CHOOSE x \in voices : TRUE
       IN  RAdd(StyleOf(r)[i], SumAt(voices \ {r}, i))

\* style is the element-wise mean of the voices query q matches
IsCentroid(style, q) ==
  LET voices == Select(catalog0, q)
  IN  /\ voices # {}
      /\ \A r \in voices : Len(StyleOf(r)) = Len(style.val)
      /\ \A i \in 1..Len(style.val) :
           RMul(style.val[i], RInt(Cardinality(voices))) = SumAt(voices, i)
      /\ \A r \in voices : voices = {r} => style.val = StyleOf(r)

\* C9: group resolution returns the element-wise arithmetic mean of exactly
\* the matched voices' vectors, the voice's own vector for a group of one,
\* and alters no stored row.
C9_GroupVectorIsMean ==
  /\ (wf = "interp" /\ IsOk(source_style)) =>
       IsCentroid(source_style, args.source_query)
  /\ (wf = "interp" /\ IsOk(target_style)) =>
       IsCentroid(target_style, args.target_query)
  /\ (wf = "interp" /\ pc \in {"target", "kokoro"}) => catalog = catalog0

C9_Witness ==
  /\ wf = "interp"
  /\ pc = "kokoro"
  /\ source_style = Ok(<<<<1, 2>>, <<1, 2>>>>)
  /\ Cardinality(Select(catalog0, args.source_query)) = 2
  /\ Cardinality(Select(catalog0, args.target_query)) = 1
  /\ \E r \in catalog : target_style.val = StyleOf(r)

InsertOrder ==
  <<"validate", "connect", "resolve_source", "resolve_target", "kokoro_init",
    "insert", "create", "write">>

Steps == IF pc = "done" /\ connOpen = FALSE /\ Len(trace) > 1
         THEN SubSeq(trace, 1, Len(trace) - 1) ELSE trace

AudioFailed == err \in {<<"GatewayError", "create">>, <<"OSError", "write">>}

\* C10: the steps of an insertion run in the order validation, source
\* group, target group, gateway initialisation, insert and commit, audio
\* generation, file write; the row is committed before the gateway is asked
\* for audio, so when the audio or its file fails the row stays in the
\* catalog (one more row, no audio file), and a run that finds the name
\* there fails with the duplicate-key error.
C10_InsertBeforeAudio ==
  Inserting =>
    /\ \/ IsPrefix(Steps, InsertOrder)
       \/ Steps = SubSeq(InsertOrder, 1, 5) \o <<"interpolate">>
    /\ Did("create") =>
         /\ HasName(catalog, Get(args.name))
         /\ ~HasName(catalog0, Get(args.name))
         /\ Cardinality(catalog) = Cardinality(catalog0) + 1
    /\ AudioFailed =>
         /\ HasName(catalog, Get(args.name))
         /\ Cardinality(catalog) = Cardinality(catalog0) + 1
         /\ files = {}
    /\ (Did("insert") /\ HasName(catalog0, Get(args.name))) =>
         err[1] = "IntegrityError"

C10_Witness ==
  /\ Inserting
  /\ pc = "done"
  /\ err = <<"GatewayError", "create">>
  /\ HasName(catalog, Get(args.name))
  /\ ~HasName(catalog0, Get(args.name))
  /\ files = {}

====
